---- MODULE Spec2Model ----
(***************************************************************************)
(* Model of the mt_providers provider registry (mt_providers/registry.py). *)
(*                                                                         *)
(* The registry is process-wide state: the insertion-ordered dict          *)
(* PROVIDER_REGISTRY, the lock _registry_lock and the lru_cache memo of    *)
(* get_provider.  Callers are threads; every thread runs one call at a     *)
(* time and a call advances in steps between which other threads may run.  *)
(***************************************************************************)
EXTENDS Integers, Sequences, FiniteSets, TLC

\* ------------------------------------------------------------------ bounds
NumThreads == 2      \* threads calling into the registry
MaxTasks   == 3      \* names handed out by the executor in the distinct-names scenario
MaxEntries == 2      \* entry points declared for the group

Threads == 1..NumThreads

\* ------------------------------------------------------------------ values
\* A str is the sequence of its code points; a name argument is any object.
StrName(chars) == [str |-> TRUE, chars |-> chars]
NA      == StrName(<<1>>)           \* "a"
NAB     == StrName(<<1, 2>>)        \* "ab"
NB      == StrName(<<2>>)           \* "b"
NEmpty  == StrName(<< >>)           \* ""
NInt    == [str |-> FALSE, chars |-> <<7>>]    \* the int 7 (truthy, not a str)
NNone   == [str |-> FALSE, chars |-> << >>]    \* None (falsy, not a str)
NoName  == NNone

\* A version string: dotted numbers, or text that is no version ("unknown").
VerStr(rel) == [valid |-> TRUE, rel |-> rel]
VUnknown    == [valid |-> FALSE, rel |-> << >>]
V018        == VerStr(<<0, 1, 8>>)
V020        == VerStr(<<0, 2, 0>>)
V02         == VerStr(<<0, 2>>)
V100        == VerStr(<<1, 0, 0>>)

\* Candidate objects handed to register_provider.  isType: it is a class;
\* isSub: a subclass of BaseTranslationProvider; minVer: the class attribute
\* min_supported_version ("0.1.8" unless overridden); hasName / nameAttr: the
\* class attribute `name`, which the base class only annotates.
ClassTable ==
  [ ProvA    |-> [isType |-> TRUE,  isSub |-> TRUE,  minVer |-> V018, hasName |-> TRUE,  nameAttr |-> NA],
    ProvA2   |-> [isType |-> TRUE,  isSub |-> TRUE,  minVer |-> V018, hasName |-> TRUE,  nameAttr |-> NA],
    ProvB    |-> [isType |-> TRUE,  isSub |-> TRUE,  minVer |-> V02,  hasName |-> TRUE,  nameAttr |-> NB],
    ProvNew  |-> [isType |-> TRUE,  isSub |-> TRUE,  minVer |-> V100, hasName |-> TRUE,  nameAttr |-> NAB],
    ProvAnon |-> [isType |-> TRUE,  isSub |-> TRUE,  minVer |-> V018, hasName |-> FALSE, nameAttr |-> NNone],
    ProvBlank|-> [isType |-> TRUE,  isSub |-> TRUE,  minVer |-> V018, hasName |-> TRUE,  nameAttr |-> NEmpty],
    Plain    |-> [isType |-> TRUE,  isSub |-> FALSE, minVer |-> V018, hasName |-> TRUE,  nameAttr |-> NB],
    Inst     |-> [isType |-> FALSE, isSub |-> FALSE, minVer |-> V018, hasName |-> TRUE,  nameAttr |-> NA] ]

AllClasses   == DOMAIN ClassTable
ValidClasses == {"ProvA", "ProvA2", "ProvB"}
NoClass      == "-"

IsProviderType(c) == c \in AllClasses /\ ClassTable[c].isType /\ ClassTable[c].isSub

\* What the concrete provider classes set of the other class attributes of
\* BaseTranslationProvider: requires_region, supports_async, and whether the
\* class overrides translate_async.
ProviderTraits ==
  [ ProvA    |-> [requiresRegion |-> FALSE, supportsAsync |-> FALSE, overridesAsync |-> FALSE],
    ProvA2   |-> [requiresRegion |-> FALSE, supportsAsync |-> TRUE,  overridesAsync |-> TRUE],
    ProvB    |-> [requiresRegion |-> TRUE,  supportsAsync |-> TRUE,  overridesAsync |-> FALSE],
    ProvNew  |-> [requiresRegion |-> TRUE,  supportsAsync |-> FALSE, overridesAsync |-> FALSE],
    ProvAnon |-> [requiresRegion |-> TRUE,  supportsAsync |-> FALSE, overridesAsync |-> FALSE],
    ProvBlank|-> [requiresRegion |-> FALSE, supportsAsync |-> FALSE, overridesAsync |-> FALSE] ]

ProviderClasses == DOMAIN ProviderTraits

\* A TranslationConfig, as far as construction reads it: api_key and region,
\* each None, "" or a non-empty str.
Config(apiKey, region) == [apiKey |-> apiKey, region |-> region]
FieldValues == {NNone, NEmpty, NA}
Configs     == {Config(k, r) : k \in FieldValues, r \in FieldValues}
NoConfig    == Config(NNone, NNone)

\* ------------------------------------------------------------------ state
VARIABLES
  registry,   \* PROVIDER_REGISTRY: sequence of [name, cls] in insertion order
  cache,      \* memo of get_provider: function from names (code points) to class
  lock,       \* _registry_lock: 0 when free, else the holding thread
  version,    \* registry.__version__, fixed when the module is imported
  pc,         \* per thread: position in its current call
  op,         \* per thread: the operation it runs
  name,       \* per thread: the name argument
  cls,        \* per thread: the candidate argument
  res,        \* per thread: outcome of the call (meaningful at pc = "done")
  scan,       \* per thread: locals of a running discover_providers call
  entryPoints,\* the entry points the packaging metadata declares for the group
  todo,       \* tasks the executor has not handed to a worker yet
  prev,       \* what the caller keeps of its previous discover_providers call
  inst,       \* the provider object of a construction: class, config, outcome
  hc,         \* a running check_provider_health call under its retry decorator
  bulk,       \* a running bulk_translate call on a provider instance
  resp,       \* a _create_response call: its arguments and the response built
  limiter,    \* a provider instance's rate-limit state: config.rate_limit, the lock, the last request time
  clock,      \* time.time(), counted in half seconds
  callers,    \* per thread: its _handle_rate_limit call on that instance
  aio,        \* a default translate_async call: the awaiting task, the executor's worker, the other tasks of the loop
  lang,       \* a call of validate_language_code or normalize_language_code
  cleared,    \* what was memoized when clear_registry was last called
  made,       \* a call of TranslationConfig(...): its arguments and outcome
  missed      \* the names whose get_provider the caller has seen fail

vars == <<registry, cache, lock, version, pc, op, name, cls, res, scan, entryPoints, todo,
          prev, inst, hc, bulk, resp, limiter, clock, callers, aio, lang,
          cleared, made, missed>>

\* what the registry operations never write
env == <<version, entryPoints, prev, inst, hc, bulk, resp, limiter, clock, callers, aio, lang, cleared, made, missed>>

\* ------------------------------------------------------------------ pure helpers
\* Python's ordering of str and of tuples: by the first differing element,
\* a proper prefix first.
RECURSIVE LexLess(_, _)
LexLess(a, b) ==
  IF b = << >> THEN FALSE
  ELSE IF a = << >> THEN TRUE
  ELSE IF Head(a) # Head(b) THEN Head(a) < Head(b)
  ELSE LexLess(Tail(a), Tail(b))

\* packaging.version.parse: the release tuple, compared with trailing zeros dropped.
RECURSIVE StripZeros(_)
StripZeros(rel) ==
  IF rel # << >> /\ rel[Len(rel)] = 0 THEN StripZeros(SubSeq(rel, 1, Len(rel) - 1)) ELSE rel

ParseVersion(v) == StripZeros(v.rel)

\* Mutant: the operands of the comparison swapped.
VersionLessSwapped(v, w) == LexLess(ParseVersion(w), ParseVersion(v))

VersionLess(v, w) == LexLess(ParseVersion(v), ParseVersion(w))

\* dict operations on the insertion-ordered mapping
Keys(d) == [i \in 1..Len(d) |-> d[i].name]

KeySet(d) == {d[i].name : i \in 1..Len(d)}

Has(d, nm) == nm.str /\ nm.chars \in KeySet(d)

Lookup(d, k) == d[CHOOSE i \in 1..Len(d) : d[i].name = k].cls

\* Mutant: the mapping rebound to a fresh dict holding the new entry only.
DictSetLost(d, k, v) == <<[name |-> k, cls |-> v]>>

DictSet(d, k, v) ==
  IF k \in KeySet(d)
  THEN [i \in 1..Len(d) |-> IF d[i].name = k THEN [name |-> k, cls |-> v] ELSE d[i]]
  ELSE Append(d, [name |-> k, cls |-> v])

\* sorted(): ascending, stable
RECURSIVE SortedInsert(_, _)
SortedInsert(s, x) ==
  IF s = << >> THEN <<x>>
  ELSE IF LexLess(x, Head(s)) THEN <<x>> \o s
  ELSE <<Head(s)>> \o SortedInsert(Tail(s), x)

RECURSIVE Sorted(_)
Sorted(s) == IF s = << >> THEN << >> ELSE SortedInsert(Sorted(SubSeq(s, 1, Len(s) - 1)), s[Len(s)])

\* Mutant: the keys in insertion order, unsorted.
ListProvidersUnsorted(d) == Keys(d)

\* list_providers(): sorted(PROVIDER_REGISTRY.keys())
ListProviders(d) == Sorted(Keys(d))

\* `not name`: the empty str, None and 0 are falsy
Truthy(nm) == nm.chars # << >>

\* ------------------------------------------------------------------ results
Res(kind, why, c, names, scanned) ==
  [kind |-> kind, why |-> why, cls |-> c, names |-> names, scanned |-> scanned]

NoRes == Res("none", "-", NoClass, << >>, FALSE)

Ok == Res("ok", "-", NoClass, << >>, FALSE)

ProviderError(why) == Res("ProviderError", why, NoClass, << >>, FALSE)

\* The message of ProviderNotFoundError carries the list printed into it.
ProviderNotFoundError(available) == Res("ProviderNotFoundError", "not found", NoClass, available, TRUE)

\* Any other exception (an import error of entry_point.load(), a failure of
\* metadata.entry_points()).
Raised(why) == Res("Exception", why, NoClass, << >>, FALSE)

\* Locals of discover_providers: the loop position, raise_errors, the list
\* `registered`, and (history) the names this call inserted into the registry.
NoScan == [idx |-> 0, raise |-> FALSE, registered |-> << >>, inserted |-> {}]

\* ------------------------------------------------------------------ register_provider
\* Mutant: no check for a name that is already registered.
RegCheckNoDup(nm, c, reg, ver) ==
  IF ~Truthy(nm) \/ ~nm.str THEN {ProviderError("name")}
  ELSE IF ~(ClassTable[c].isType /\ ClassTable[c].isSub) THEN {ProviderError("type")}
  ELSE IF ~ver.valid THEN {Res("InvalidVersion", "version", NoClass, << >>, FALSE), ProviderError("version")}
  ELSE IF VersionLess(ver, ClassTable[c].minVer) THEN {ProviderError("version")}
  ELSE {Ok}

\* Mutant: no check that the candidate is a provider class.
RegCheckNoType(nm, c, reg, ver) ==
  IF ~Truthy(nm) \/ ~nm.str THEN {ProviderError("name")}
  ELSE IF Has(reg, nm) THEN {ProviderError("duplicate")}
  ELSE IF ~ver.valid THEN {Res("InvalidVersion", "version", NoClass, << >>, FALSE), ProviderError("version")}
  ELSE IF VersionLess(ver, ClassTable[c].minVer) THEN {ProviderError("version")}
  ELSE {Ok}

\* Lines 40-56: the checks made before the lock is taken, in source order.
\* The result is the set of possible outcomes: "pass" or the error raised.
\* version.parse of text that is no version raises InvalidVersion in current
\* packaging releases and yields a LegacyVersion, smaller than every version,
\* in old ones.
RegCheck(nm, c, reg, ver) ==
  IF ~Truthy(nm) \/ ~nm.str THEN {ProviderError("name")}
  ELSE IF Has(reg, nm) THEN {ProviderError("duplicate")}
  ELSE IF ~(ClassTable[c].isType /\ ClassTable[c].isSub) THEN {ProviderError("type")}
  ELSE IF ~ver.valid THEN {Res("InvalidVersion", "version", NoClass, << >>, FALSE), ProviderError("version")}
  ELSE IF VersionLess(ver, ClassTable[c].minVer) THEN {ProviderError("version")}
  ELSE {Ok}

\* A call of register_provider(nm, c) up to the point where it waits for the lock.
RegisterStart(t, nm, c) ==
  /\ pc[t] = "idle"
  /\ \E out \in RegCheck(nm, c, registry, version) :
       /\ pc' = [pc EXCEPT ![t] = IF out = Ok THEN "reg_lock" ELSE "done"]
       /\ res' = [res EXCEPT ![t] = IF out = Ok THEN NoRes ELSE out]
  /\ op' = [op EXCEPT ![t] = "register"]
  /\ name' = [name EXCEPT ![t] = nm]
  /\ cls' = [cls EXCEPT ![t] = c]
  /\ UNCHANGED <<registry, cache, lock, env, scan>>

RegisterCall(t, nm, c) == RegisterStart(t, nm, c) /\ UNCHANGED todo

\* Line 58: with _registry_lock
AcquireLock(t) ==
  /\ pc[t] = "reg_lock"
  /\ lock = 0
  /\ lock' = t
  /\ pc' = [pc EXCEPT ![t] = "reg_insert"]
  /\ UNCHANGED <<registry, cache, env, op, name, cls, res, scan, todo>>

\* Mutant: the loop moves on without appending the name.
ScanAppendSkip(s, k) == [s EXCEPT !.idx = @ + 1]

\* discover_providers line 122: registered.append(provider_class.name), and the
\* loop moves to the next entry point.
ScanAppend(s, k) == [s EXCEPT !.registered = Append(@, k), !.idx = @ + 1]

\* History: the names this discover_providers call has inserted.
ScanNote(s, k) == [s EXCEPT !.inserted = @ \cup {k}]

\* Lines 59-60: the insert, then the lock is released.  register_provider
\* returns to its caller: the user, or the loop of discover_providers.
RegInsert(t) ==
  /\ pc[t] = "reg_insert"
  /\ registry' = DictSet(registry, name[t].chars, cls[t])
  /\ lock' = 0
  /\ IF op[t] = "discover"
     THEN /\ scan' = [scan EXCEPT ![t] = ScanAppend(ScanNote(@, name[t].chars), name[t].chars)]
          /\ pc' = [pc EXCEPT ![t] = "disc_load"]
          /\ name' = [name EXCEPT ![t] = NoName]
          /\ cls' = [cls EXCEPT ![t] = NoClass]
          /\ res' = res
     ELSE /\ pc' = [pc EXCEPT ![t] = "done"]
          /\ res' = [res EXCEPT ![t] = Ok]
          /\ UNCHANGED <<scan, name, cls>>
  /\ UNCHANGED <<cache, env, op, todo>>

\* ------------------------------------------------------------------ get_provider
\* The lru_cache wrapper: a hit returns the memo, a miss calls the function.
CacheHit(c, nm) == nm.str /\ nm.chars \in DOMAIN c

GetCall(t, nm) ==
  /\ pc[t] = "idle"
  /\ op' = [op EXCEPT ![t] = "get"]
  /\ name' = [name EXCEPT ![t] = nm]
  /\ IF CacheHit(cache, nm)
     THEN /\ pc' = [pc EXCEPT ![t] = "done"]
          /\ res' = [res EXCEPT ![t] = Res("ok", "-", cache[nm.chars], << >>, FALSE)]
     ELSE /\ pc' = [pc EXCEPT ![t] = "get_read"]
          /\ res' = [res EXCEPT ![t] = NoRes]
  /\ UNCHANGED <<registry, cache, lock, env, cls, scan, todo>>

\* Line 78: PROVIDER_REGISTRY[name]
GetRead(t) ==
  /\ pc[t] = "get_read"
  /\ IF Has(registry, name[t])
     THEN /\ cls' = [cls EXCEPT ![t] = Lookup(registry, name[t].chars)]
          /\ pc' = [pc EXCEPT ![t] = "get_store"]
     ELSE /\ cls' = cls
          /\ pc' = [pc EXCEPT ![t] = "get_list"]
  /\ UNCHANGED <<registry, cache, lock, env, op, name, res, scan, todo>>

\* Mutant: the failure is memoized like a value.
GetListMemo(t) ==
  /\ pc[t] = "get_list"
  /\ res' = [res EXCEPT ![t] = ProviderNotFoundError(ListProviders(registry))]
  /\ cache' = [x \in DOMAIN cache \cup {name[t].chars} |->
                IF x = name[t].chars THEN NoClass ELSE cache[x]]
  /\ pc' = [pc EXCEPT ![t] = "done"]
  /\ UNCHANGED <<registry, lock, env, op, name, cls, scan, todo>>

\* Lines 79-83: the KeyError handler
GetList(t) ==
  /\ pc[t] = "get_list"
  /\ res' = [res EXCEPT ![t] = ProviderNotFoundError(ListProviders(registry))]
  /\ pc' = [pc EXCEPT ![t] = "done"]
  /\ UNCHANGED <<registry, cache, lock, env, op, name, cls, scan, todo>>

\* The wrapper stores the value the function returned and returns it.
CachePut(c, k, v) == [x \in DOMAIN c \cup {k} |-> IF x = k THEN v ELSE c[x]]

GetStore(t) ==
  /\ pc[t] = "get_store"
  /\ cache' = CachePut(cache, name[t].chars, cls[t])
  /\ res' = [res EXCEPT ![t] = Res("ok", "-", cls[t], << >>, TRUE)]
  /\ pc' = [pc EXCEPT ![t] = "done"]
  /\ UNCHANGED <<registry, lock, env, op, name, cls, scan, todo>>

\* ------------------------------------------------------------------ list_providers
ListCall(t) ==
  /\ pc[t] = "idle"
  /\ op' = [op EXCEPT ![t] = "list"]
  /\ res' = [res EXCEPT ![t] = Res("ok", "-", NoClass, ListProviders(registry), FALSE)]
  /\ pc' = [pc EXCEPT ![t] = "done"]
  /\ UNCHANGED <<registry, cache, lock, env, name, cls, scan, todo>>

\* ------------------------------------------------------------------ clear_registry
\* Line 135: PROVIDER_REGISTRY.clear()
ClearStart(t) ==
  /\ pc[t] = "idle"
  /\ op' = [op EXCEPT ![t] = "clear"]
  /\ registry' = << >>
  /\ pc' = [pc EXCEPT ![t] = "clear_cache"]
  /\ UNCHANGED <<cache, lock, name, cls, res, scan, todo>>

ClearCall(t) == ClearStart(t) /\ UNCHANGED env

\* Mutant: the lookup cache is left as it is.
ClearCacheKept(t) ==
  /\ pc[t] = "clear_cache"
  /\ res' = [res EXCEPT ![t] = Ok]
  /\ pc' = [pc EXCEPT ![t] = "done"]
  /\ UNCHANGED <<registry, cache, lock, env, op, name, cls, scan, todo>>

\* Line 137: get_provider.cache_clear()
ClearCache(t) ==
  /\ pc[t] = "clear_cache"
  /\ cache' = << >>
  /\ res' = [res EXCEPT ![t] = Ok]
  /\ pc' = [pc EXCEPT ![t] = "done"]
  /\ UNCHANGED <<registry, lock, env, op, name, cls, scan, todo>>

\* A thread has finished a call of operation o (its result is in res).
Finished(t, o) == pc[t] = "done" /\ op[t] = o

\* The call returns (or its exception reaches the caller); the thread is free again.
ReturnStart(t) ==
  /\ pc[t] = "done"
  /\ pc' = [pc EXCEPT ![t] = "idle"]
  /\ op' = [op EXCEPT ![t] = "-"]
  /\ name' = [name EXCEPT ![t] = NoName]
  /\ cls' = [cls EXCEPT ![t] = NoClass]
  /\ res' = [res EXCEPT ![t] = NoRes]
  /\ scan' = [scan EXCEPT ![t] = NoScan]
  /\ UNCHANGED <<registry, cache, lock, todo>>

Return(t) == ReturnStart(t) /\ UNCHANGED env

\* ------------------------------------------------------------------ discover_providers
\* An entry point: load() either raises or yields the object it names.
Entry(c) == [loads |-> TRUE, cls |-> c]
BrokenEntry == [loads |-> FALSE, cls |-> NoClass]

\* Lines 104-111: metadata.entry_points().get(group, []) may raise (the mapping
\* interface is gone from newer importlib.metadata); the failure is logged and
\* re-raised only when raise_errors is set.
DiscoverCall(t, raiseErrors) ==
  /\ pc[t] = "idle"
  /\ op' = [op EXCEPT ![t] = "discover"]
  /\ scan' = [scan EXCEPT ![t] = [NoScan EXCEPT !.idx = 1, !.raise = raiseErrors]]
  /\ \/ /\ pc' = [pc EXCEPT ![t] = "disc_load"]
        /\ res' = res
     \/ /\ pc' = [pc EXCEPT ![t] = "done"]
        /\ res' = [res EXCEPT ![t] = IF raiseErrors THEN Raised("entry_points")
                                     ELSE Res("ok", "entry_points", NoClass, << >>, FALSE)]
  /\ UNCHANGED <<registry, cache, lock, env, name, cls, todo>>

\* Lines 115-121 for one entry point: load it, look for `name`, and run the
\* checks of register_provider; the possible outcomes.
LoadOutcomes(e, reg, ver) ==
  IF ~e.loads THEN {Raised("load")}
  ELSE IF ~ClassTable[e.cls].hasName THEN {ProviderError("missing name")}
  ELSE RegCheck(ClassTable[e.cls].nameAttr, e.cls, reg, ver)

\* Mutant: the except clause re-raises whatever raise_errors says.
PropagatesAlways(s) == TRUE

\* Mutant: the except clause never re-raises.
PropagatesNever(s) == FALSE

\* Lines 127-128: if raise_errors: raise
Propagates(s) == s.raise

\* Mutant: the entries this scan has inserted are taken out again.
RolledBack(reg, s) == SelectSeq(reg, LAMBDA r : r.name \notin s.inserted)

\* Lines 123-128: the except clause logs and re-raises; the registry is not
\* touched.
AfterAbort(reg, s) == reg

\* Lines 113-130: one turn of the loop, up to the lock of register_provider,
\* the except clause, or the return after the last entry point.
DiscLoad(t) ==
  /\ pc[t] = "disc_load"
  /\ IF scan[t].idx > Len(entryPoints)
     THEN /\ pc' = [pc EXCEPT ![t] = "done"]
          /\ res' = [res EXCEPT ![t] = Res("ok", "-", NoClass, scan[t].registered, FALSE)]
          /\ UNCHANGED <<registry, name, cls, scan>>
     ELSE LET e == entryPoints[scan[t].idx] IN
          \E out \in LoadOutcomes(e, registry, version) :
            IF out = Ok
            THEN /\ pc' = [pc EXCEPT ![t] = "reg_lock"]
                 /\ name' = [name EXCEPT ![t] = ClassTable[e.cls].nameAttr]
                 /\ cls' = [cls EXCEPT ![t] = e.cls]
                 /\ UNCHANGED <<registry, res, scan>>
            ELSE IF Propagates(scan[t])
            THEN /\ pc' = [pc EXCEPT ![t] = "done"]
                 /\ res' = [res EXCEPT ![t] = out]
                 /\ registry' = AfterAbort(registry, scan[t])
                 /\ UNCHANGED <<name, cls, scan>>
            ELSE /\ scan' = [scan EXCEPT ![t].idx = @ + 1]
                 /\ UNCHANGED <<registry, pc, res, name, cls>>
  /\ UNCHANGED <<cache, lock, env, op, todo>>

\* ------------------------------------------------------------------ provider construction
\* What the registry operations own.
regvars == <<registry, cache, lock, pc, op, name, cls, res, scan, todo>>

\* Outcome of a constructor call: the instance, or the exception raised.
Instance == [kind |-> "instance", why |-> "-"]
Failure(kind, why) == [kind |-> kind, why |-> why]
ConfigurationError(why) == Failure("ConfigurationError", why)
NoOutcome == Failure("none", "-")
NoInst == [state |-> "none", cls |-> NoClass, config |-> NoConfig, out |-> NoOutcome]

\* Mutant: the API key is not looked at.
ValidateConfigNoKey(c, cfg) ==
  IF ProviderTraits[c].requiresRegion /\ ~Truthy(cfg.region)
  THEN ConfigurationError("region")
  ELSE Instance

\* Mutant: the region is not looked at.
ValidateConfigNoRegion(c, cfg) ==
  IF ~Truthy(cfg.apiKey) THEN ConfigurationError("api_key") ELSE Instance

\* base.py lines 46-51: validate_config
ValidateConfig(c, cfg) ==
  IF ~Truthy(cfg.apiKey) THEN ConfigurationError("api_key")
  ELSE IF ProviderTraits[c].requiresRegion /\ ~Truthy(cfg.region)
  THEN ConfigurationError("region")
  ELSE Instance

\* base.py lines 24-44: __init__.  The set of possible outcomes.  The base
\* class only annotates `name`, so reading it on a class that sets none raises
\* AttributeError; version.parse of text that is no version behaves as in
\* RegCheck.
Construct(c, cfg, ver) ==
  IF ~ClassTable[c].hasName THEN {Failure("AttributeError", "name")}
  ELSE IF ~Truthy(ClassTable[c].nameAttr) THEN {ConfigurationError("name")}
  ELSE IF ~ver.valid THEN {Failure("InvalidVersion", "version"), ConfigurationError("version")}
  ELSE IF VersionLess(ver, ClassTable[c].minVer) THEN {ConfigurationError("version")}
  ELSE {ValidateConfig(c, cfg)}

\* provider_class(config)
ConstructCall(c, cfg) ==
  /\ inst.state = "none"
  /\ \E out \in Construct(c, cfg, version) :
       inst' = [state |-> IF out = Instance THEN "built" ELSE "failed",
                cls |-> c, config |-> cfg, out |-> out]
  /\ UNCHANGED <<regvars, version, entryPoints, prev, hc, bulk, resp, limiter, clock, callers,
                 aio, lang, cleared, made, missed>>

\* The caller drops the instance (or handles the exception).
Discard ==
  /\ inst.state # "none"
  /\ inst' = NoInst
  /\ UNCHANGED <<regvars, version, entryPoints, prev, hc, bulk, resp, limiter, clock, callers,
                 aio, lang, cleared, made, missed>>

\* ------------------------------------------------------------------ TranslationConfig
\* types.py lines 21-33: the fields of the dataclass that the model follows.
FullConfig(apiKey, region, uaName, uaVersion) ==
  [apiKey |-> apiKey, region |-> region, uaName |-> uaName, uaVersion |-> uaVersion]

ConfigMade == [kind |-> "config", why |-> "-"]

\* Mutant: the two user-agent fields are not compared.
PostInitNever(cfg) == ConfigMade

\* types.py lines 35-40: __post_init__
PostInit(cfg) ==
  IF (cfg.uaName = NNone) # (cfg.uaVersion = NNone)
  THEN Failure("ValueError", "user_agent")
  ELSE ConfigMade

NoMade == [state |-> "none", config |-> FullConfig(NNone, NNone, NNone, NNone), out |-> NoOutcome]

\* TranslationConfig(api_key=..., region=..., user_agent_name=..., user_agent_version=...)
MakeConfig(apiKey, region, uaName, uaVersion) ==
  /\ made.state = "none"
  /\ LET cfg == FullConfig(apiKey, region, uaName, uaVersion)
         out == PostInit(cfg)
     IN made' = [state |-> IF out = ConfigMade THEN "built" ELSE "failed",
                 config |-> cfg, out |-> out]
  /\ UNCHANGED <<regvars, version, entryPoints, prev, inst, hc, bulk, resp, limiter, clock,
                 callers, aio, lang, cleared, missed>>

\* provider_class(config) with the config the caller has made
ConstructFrom(c) ==
  /\ made.state = "built"
  /\ ConstructCall(c, made.config)

\* The caller drops the config (or handles the exception).
DropConfig ==
  /\ made.state # "none"
  /\ inst.state = "none"
  /\ made' = NoMade
  /\ UNCHANGED <<regvars, version, entryPoints, prev, inst, hc, bulk, resp, limiter, clock,
                 callers, aio, lang, cleared, missed>>

\* ------------------------------------------------------------------ check_provider_health
\* Line 140: stop_after_attempt(3), wait_exponential(multiplier=1, min=4, max=10)
StopAfter      == 3
WaitMultiplier == 1
WaitMin        == 4
WaitMax        == 10

Statuses == {"SUCCESS", "FAILED", "PENDING"}

\* Outcome of one attempt (one run of the function body): the status of the
\* response it got, or the exception it raised.
Returned(status) == [what |-> "returned", val |-> status]
Raises(err)      == [what |-> "raised", val |-> err]

\* get_provider(name) as the event loop sees it: the memo, else the registry
\* (and the memo is filled), else ProviderNotFoundError.
GetNow(c, reg, nm) ==
  IF CacheHit(c, nm) THEN [found |-> TRUE, cls |-> c[nm.chars], cache |-> c]
  ELSE IF Has(reg, nm)
  THEN [found |-> TRUE, cls |-> Lookup(reg, nm.chars),
        cache |-> CachePut(c, nm.chars, Lookup(reg, nm.chars))]
  ELSE [found |-> FALSE, cls |-> NoClass, cache |-> c]

\* Lines 156-159: the translation call on an instance of class c.  A provider
\* that supports async without overriding translate_async reaches the
\* `raise NotImplementedError` of base.py line 69; otherwise the provider's own
\* code answers with a response of some status, or raises.
TranslateOutcomes(c) ==
  IF ProviderTraits[c].supportsAsync /\ ~ProviderTraits[c].overridesAsync
  THEN {Raises("NotImplementedError")}
  ELSE {Returned(st) : st \in Statuses} \cup {Raises("TranslationError")}

\* A call of a translation method of the provider.
TranslationCall(fn, text, src, tgt) == [fn |-> fn, text |-> text, src |-> src, tgt |-> tgt]

\* Mutant: the synchronous method is called whatever the provider supports.
HealthTranslateSync(c, text) == <<TranslationCall("translate", text, "en", "fr")>>

\* Lines 156-159: the translation calls of one attempt on an instance of class c.
HealthTranslate(c, text) ==
  IF ProviderTraits[c].supportsAsync
  THEN <<TranslationCall("translate_async", text, "en", "fr")>>
  ELSE <<TranslationCall("translate", text, "en", "fr")>>

\* One run of the function body: its outcome, whether line 155 gave it a
\* provider instance (and of which class), and the translation calls it made.
AttemptRun(out, built, c, calls) == [out |-> out, built |-> built, cls |-> c, calls |-> calls]

\* Lines 154-165: what one attempt can come to.
AttemptRuns(c, reg, nm, cfg, ver, text) ==
  LET g == GetNow(c, reg, nm) IN
    IF ~g.found THEN {AttemptRun(Raises("ProviderNotFoundError"), FALSE, NoClass, << >>)}
    ELSE UNION { IF co = Instance
                 THEN {AttemptRun(o, TRUE, g.cls, HealthTranslate(g.cls, text))
                         : o \in TranslateOutcomes(g.cls)}
                 ELSE {AttemptRun(Raises(co.kind), FALSE, g.cls, << >>)}
                 : co \in Construct(g.cls, cfg, ver) }

\* Mutant: anything but FAILED counts as healthy.
HealthVerdictNotFailed(status) == status # "FAILED"

\* Line 162: result.get("status") == TranslationStatus.SUCCESS
HealthVerdict(status) == status = "SUCCESS"

\* Mutant: a FAILED response is retried like a raised error.
ShouldRetryUnhealthy(o) == o.what = "raised" \/ o.val = "FAILED"

\* The decorator's default retry condition: any raised Exception.
ShouldRetry(o) == o.what = "raised"

\* Mutant: the decorator stops one attempt later.
ShouldStopLate(n) == n > StopAfter

\* stop_after_attempt
ShouldStop(n) == n >= StopAfter

\* Mutant: the wait is not raised to the minimum.
WaitExponentialNoMin(n) ==
  LET raw == WaitMultiplier * 2^(n - 1)
  IN IF raw < WaitMax THEN raw ELSE WaitMax

\* wait_exponential: multiplier * 2^(attempt - 1), clamped to [min, max]
WaitExponential(n) ==
  LET raw == WaitMultiplier * 2^(n - 1)
      capped == IF raw < WaitMax THEN raw ELSE WaitMax
  IN IF capped > WaitMin THEN capped ELSE WaitMin

\* What the caller of check_provider_health gets.
HealthResult(kind, ok, err) == [kind |-> kind, ok |-> ok, err |-> err]
NoHealth ==
  [pc |-> "idle", name |-> NoName, config |-> NoConfig, text |-> "", attempt |-> 0,
   waits |-> << >>, log |-> << >>, runs |-> << >>, out |-> HealthResult("none", FALSE, "-")]

\* await check_provider_health(nm, cfg, text)
HealthCall(nm, cfg, text) ==
  /\ hc.pc = "idle"
  /\ hc' = [hc EXCEPT !.pc = "attempt", !.name = nm, !.config = cfg, !.text = text,
                      !.attempt = 1]
  /\ UNCHANGED <<regvars, version, entryPoints, prev, inst, bulk, resp, limiter, clock,
                 callers, aio, lang, cleared, made, missed>>

\* One attempt, and what the decorator makes of its outcome: a returned value
\* ends the call; a raised error is retried after a wait unless this was the
\* last attempt, and then the decorator (reraise is not set) raises RetryError
\* holding the last attempt.
HealthAttempt ==
  /\ hc.pc = "attempt"
  /\ \E r \in AttemptRuns(cache, registry, hc.name, hc.config, version, hc.text) :
       LET o == r.out
           h == [hc EXCEPT !.log = Append(@, o), !.runs = Append(@, r)]
       IN hc' = IF ~ShouldRetry(o)
                THEN [h EXCEPT !.pc = "done",
                               !.out = HealthResult("returned", HealthVerdict(o.val), "-")]
                ELSE IF ShouldStop(hc.attempt)
                THEN [h EXCEPT !.pc = "done",
                               !.out = HealthResult("RetryError", FALSE, o.val)]
                ELSE [h EXCEPT !.pc = "wait"]
  /\ cache' = GetNow(cache, registry, hc.name).cache
  /\ UNCHANGED <<registry, lock, pc, op, name, cls, res, scan, todo,
                 version, entryPoints, prev, inst, bulk, resp, limiter, clock, callers,
                 aio, lang, cleared, made, missed>>

\* The sleep between two attempts.
HealthWait ==
  /\ hc.pc = "wait"
  /\ hc' = [hc EXCEPT !.pc = "attempt", !.attempt = @ + 1,
                      !.waits = Append(@, WaitExponential(hc.attempt))]
  /\ UNCHANGED <<regvars, version, entryPoints, prev, inst, bulk, resp, limiter, clock,
                 callers, aio, lang, cleared, made, missed>>

\* The awaiting caller resumes with the result or the exception.
HealthReturn ==
  /\ hc.pc = "done"
  /\ hc' = NoHealth
  /\ UNCHANGED <<regvars, version, entryPoints, prev, inst, bulk, resp, limiter, clock,
                 callers, aio, lang, cleared, made, missed>>

\* ------------------------------------------------------------------ bulk_translate
MaxTexts == 2      \* texts handed to one bulk_translate call

\* translate(text, source_lang, target_lang) of the concrete provider: the
\* response it answers for this call (n tells the calls apart, as the
\* request_id does); status is the provider's business.
TranslateResponse(text, src, tgt, status, n) ==
  [text |-> text, src |-> src, tgt |-> tgt, status |-> status, call |-> n]

NoBulk ==
  [pc |-> "idle", texts |-> << >>, src |-> "-", tgt |-> "-", i |-> 0,
   calls |-> << >>, out |-> << >>, kind |-> "none"]

\* Mutant: the comprehension builds its list back to front.
CollectFront(out, r) == <<r>> \o out

\* The list comprehension collects the responses in the order of the calls.
Collect(out, r) == Append(out, r)

\* provider.bulk_translate(texts, src, tgt)
BulkCall(texts, src, tgt) ==
  /\ bulk.pc = "idle"
  /\ bulk' = [NoBulk EXCEPT !.pc = "loop", !.texts = texts, !.src = src, !.tgt = tgt, !.i = 1]
  /\ UNCHANGED <<regvars, version, entryPoints, prev, inst, hc, resp, limiter, clock, callers,
                 aio, lang, cleared, made, missed>>

\* Line 75: one turn of the comprehension, or its end.  A translate call that
\* raises ends bulk_translate with that exception.
BulkStep ==
  /\ bulk.pc = "loop"
  /\ IF bulk.i > Len(bulk.texts)
     THEN bulk' = [bulk EXCEPT !.pc = "done", !.kind = "returned"]
     ELSE LET call == [text |-> bulk.texts[bulk.i], src |-> bulk.src, tgt |-> bulk.tgt] IN
          \/ \E st \in {"SUCCESS", "FAILED"} :
               LET r == TranslateResponse(call.text, call.src, call.tgt, st, Len(bulk.calls) + 1) IN
               bulk' = [bulk EXCEPT !.i = @ + 1,
                                    !.calls = Append(@, [args |-> call, resp |-> r]),
                                    !.out = Collect(@, r)]
          \/ bulk' = [bulk EXCEPT !.pc = "done", !.kind = "raised", !.out = << >>,
                                  !.calls = Append(@, [args |-> call,
                                     resp |-> TranslateResponse(call.text, call.src, call.tgt, "raised", Len(bulk.calls) + 1)])]
  /\ UNCHANGED <<regvars, version, entryPoints, prev, inst, hc, resp, limiter, clock, callers,
                 aio, lang, cleared, made, missed>>

BulkReturn ==
  /\ bulk.pc = "done"
  /\ bulk' = NoBulk
  /\ UNCHANGED <<regvars, version, entryPoints, prev, inst, hc, resp, limiter, clock, callers,
                 aio, lang, cleared, made, missed>>

\* ------------------------------------------------------------------ _create_response
\* The optional metadata argument: None, or a dict (here: its set of keys).
Meta(given, keys) == [given |-> given, keys |-> keys]

\* Lines 86-97: the response record.  `error` is None, "" or a message.
CreateResponse(provider, text, src, tgt, count, error, metadata, id, now) ==
  [ translated_text |-> text,
    source_lang     |-> src,
    target_lang     |-> tgt,
    provider        |-> provider,
    char_count      |-> count,
    status          |-> IF Truthy(error) THEN "FAILED" ELSE "SUCCESS",
    error           |-> error,
    request_id      |-> id,
    timestamp       |-> now,
    metadata        |-> IF metadata.given /\ metadata.keys # {} THEN metadata.keys ELSE {} ]

NoResp == [state |-> "none", error |-> NNone, out |-> CreateResponse(NNone, "", "-", "-", 0, NNone, Meta(FALSE, {}), "-", 0)]

\* self._create_response(...) on an instance of class c; uuid4 and the clock
\* give what they give.
CreateResponseCall(c, text, tgt, count, error, metadata) ==
  /\ resp.state = "none"
  /\ \E id \in {"u1", "u2"}, now \in {1, 2} :
       resp' = [state |-> "built", error |-> error,
                out |-> CreateResponse(ClassTable[c].nameAttr, text, "en", tgt, count,
                                       error, metadata, id, now)]
  /\ UNCHANGED <<regvars, version, entryPoints, prev, inst, hc, bulk, limiter, clock, callers,
                 aio, lang, cleared, made, missed>>

\* The response goes to the caller.
ResponseReturn ==
  /\ resp.state = "built"
  /\ resp' = NoResp
  /\ UNCHANGED <<regvars, version, entryPoints, prev, inst, hc, bulk, limiter, clock, callers,
                 aio, lang, cleared, made, missed>>

\* ------------------------------------------------------------------ _handle_rate_limit
MaxTime   == 4     \* the clock stops there
MaxStamps == 3     \* request times one instance records

\* time.time() at the start; never 0, which `if self._last_request_time` would
\* take for None.
StartTime == 1

\* What the earlier parts own.
callvars == <<regvars, version, entryPoints, prev, inst, hc, bulk, resp>>

\* Line 155: 1.0 / self.config.rate_limit, in half seconds.
Interval(rate) == 2 \div rate

\* No instance yet.  rate: config.rate_limit (0 for None or 0); lock:
\* _rate_limit_lock (0 for None, else the number of the Lock object); last:
\* _last_request_time (0 for None); held: per Lock object created, its holder
\* or 0; stamps: the request times recorded so far; running: the caller that
\* the event loop is executing when the callers share one loop, else 0.
NoLimiter ==
  [built |-> FALSE, rate |-> 0, lock |-> 0, last |-> 0, held |-> << >>,
   stamps |-> << >>, running |-> 0]

\* A caller's locals: lock is the Lock object its `async with` evaluated,
\* wake the time its sleep ends.
NoCaller == [pc |-> "idle", lock |-> 0, wake |-> 0]

\* base.py lines 40-44: a provider is built on a config with this rate_limit.
NewLimiter(rate) ==
  /\ ~limiter.built
  /\ limiter' = [NoLimiter EXCEPT !.built = TRUE, !.rate = rate]
  /\ UNCHANGED <<callvars, clock, callers, aio, lang, cleared, made, missed>>

\* Callers that are tasks of one event loop run one at a time, from one
\* suspension to the next; callers on threads of their own interleave freely.
OnLoop(t, oneLoop) == oneLoop => limiter.running \in {0, t}

Runs(t, oneLoop, suspended) == IF oneLoop /\ ~suspended THEN t ELSE 0

\* Mutant: no rate counts as unset.
UnlimitedNever(rate) == FALSE

\* Line 146: if not self.config.rate_limit (None and 0 alike)
Unlimited(rate) == rate = 0

\* Lines 144-147
RateCall(t, oneLoop) ==
  /\ limiter.built
  /\ callers[t].pc = "idle"
  /\ OnLoop(t, oneLoop)
  /\ Len(limiter.stamps) < MaxStamps
  /\ callers' = [callers EXCEPT ![t].pc = IF Unlimited(limiter.rate) THEN "returned"
                                          ELSE "check_lock"]
  /\ limiter' = [limiter EXCEPT !.running = Runs(t, oneLoop, FALSE)]
  /\ UNCHANGED <<callvars, clock, aio, lang, cleared, made, missed>>

\* Line 149: if self._rate_limit_lock is None
CheckLock(t, oneLoop) ==
  /\ callers[t].pc = "check_lock"
  /\ OnLoop(t, oneLoop)
  /\ callers' = [callers EXCEPT ![t].pc = IF limiter.lock = 0 THEN "make_lock" ELSE "enter"]
  /\ UNCHANGED <<callvars, clock, limiter, aio, lang, cleared, made, missed>>

\* Line 150: self._rate_limit_lock = asyncio.Lock()
MakeLock(t, oneLoop) ==
  /\ callers[t].pc = "make_lock"
  /\ OnLoop(t, oneLoop)
  /\ limiter' = [limiter EXCEPT !.held = Append(@, 0), !.lock = Len(limiter.held) + 1]
  /\ callers' = [callers EXCEPT ![t].pc = "enter"]
  /\ UNCHANGED <<callvars, clock, aio, lang, cleared, made, missed>>

\* The callers suspended on Lock l (asyncio.Lock keeps them in a queue; a
\* waiter whose wake-up was lost stays in it).
Waiters(l) == {u \in Threads : callers[u].pc \in {"wait_lock", "lost"} /\ callers[u].lock = l}

\* Line 152: async with self._rate_limit_lock - the attribute is read, and the
\* Lock taken if it is free and nobody waits for it; else the caller is
\* suspended on that Lock.
EnterLock(t, oneLoop) ==
  /\ callers[t].pc = "enter"
  /\ OnLoop(t, oneLoop)
  /\ LET l == limiter.lock IN
       IF limiter.held[l] = 0 /\ Waiters(l) = {}
       THEN /\ limiter' = [limiter EXCEPT !.held[l] = t]
            /\ callers' = [callers EXCEPT ![t].pc = "read", ![t].lock = l]
       ELSE /\ limiter' = [limiter EXCEPT !.running = Runs(t, oneLoop, TRUE)]
            /\ callers' = [callers EXCEPT ![t].pc = "wait_lock", ![t].lock = l]
  /\ UNCHANGED <<callvars, clock, aio, lang, cleared, made, missed>>

\* The Lock a suspended caller waits for is released to it.
AcquireWaited(t, oneLoop) ==
  /\ callers[t].pc = "wait_lock"
  /\ OnLoop(t, oneLoop)
  /\ limiter.held[callers[t].lock] = 0
  /\ limiter' = [limiter EXCEPT !.held[callers[t].lock] = t, !.running = Runs(t, oneLoop, FALSE)]
  /\ callers' = [callers EXCEPT ![t].pc = "read"]
  /\ UNCHANGED <<callvars, clock, aio, lang, cleared, made, missed>>

\* The Lock is released by a caller on another thread: release() completes
\* the waiter's future from that thread, which schedules the wake-up with the
\* waiter's loop.call_soon; that call is not thread-safe and does not wake a
\* loop that is idle in its selector, so the waiter may never run again.
LoseWake(t) ==
  /\ callers[t].pc = "wait_lock"
  /\ limiter.held[callers[t].lock] = 0
  /\ callers' = [callers EXCEPT ![t].pc = "lost"]
  /\ UNCHANGED <<callvars, clock, limiter, aio, lang, cleared, made, missed>>

\* Lines 153-158: the wait is computed from the last request time; a positive
\* wait suspends the caller in asyncio.sleep.
ReadLast(t, oneLoop) ==
  /\ callers[t].pc = "read"
  /\ OnLoop(t, oneLoop)
  /\ LET elapsed  == clock - limiter.last
         waitTime == Interval(limiter.rate) - elapsed
     IN IF limiter.last # 0 /\ waitTime > 0
        THEN /\ callers' = [callers EXCEPT ![t].pc = "sleep", ![t].wake = clock + waitTime]
             /\ limiter' = [limiter EXCEPT !.running = Runs(t, oneLoop, TRUE)]
        ELSE /\ callers' = [callers EXCEPT ![t].pc = "write"]
             /\ limiter' = limiter
  /\ UNCHANGED <<callvars, clock, aio, lang, cleared, made, missed>>

\* asyncio.sleep(wait_time) is over.
Wake(t, oneLoop) ==
  /\ callers[t].pc = "sleep"
  /\ OnLoop(t, oneLoop)
  /\ clock >= callers[t].wake
  /\ callers' = [callers EXCEPT ![t].pc = "write"]
  /\ limiter' = [limiter EXCEPT !.running = Runs(t, oneLoop, FALSE)]
  /\ UNCHANGED <<callvars, clock, aio, lang, cleared, made, missed>>

\* Line 159 and the end of the `async with` block.
WriteLast(t, oneLoop) ==
  /\ callers[t].pc = "write"
  /\ OnLoop(t, oneLoop)
  /\ limiter' = [limiter EXCEPT !.last = clock, !.stamps = Append(@, clock),
                                !.held[callers[t].lock] = 0]
  /\ callers' = [callers EXCEPT ![t].pc = "returned"]
  /\ UNCHANGED <<callvars, clock, aio, lang, cleared, made, missed>>

RateReturn(t, oneLoop) ==
  /\ callers[t].pc = "returned"
  /\ OnLoop(t, oneLoop)
  /\ callers' = [callers EXCEPT ![t] = NoCaller]
  /\ limiter' = [limiter EXCEPT !.running = 0]
  /\ UNCHANGED <<callvars, clock, aio, lang, cleared, made, missed>>

\* Time passes (beyond MaxTime only as far as a sleeping caller needs).
Tick ==
  /\ \/ clock < MaxTime
     \/ \E t \in Threads : callers[t].pc = "sleep" /\ callers[t].wake > clock
  /\ clock' = clock + 1
  /\ UNCHANGED <<callvars, limiter, callers, aio, lang, cleared, made, missed>>

\* ------------------------------------------------------------------ translate_async
MaxOtherSteps == 2    \* steps of other tasks counted while translate runs

\* What the parts above own.
basevars == <<callvars, limiter, clock, callers>>

\* Mutant: the default implementation delegates whatever the class declares.
DelegatesAlways(c) == TRUE

\* base.py line 64: if not self.supports_async
Delegates(c) == ~ProviderTraits[c].supportsAsync

\* Mutant: the language pair handed over the wrong way round.
JobArgsSwapped(text, src, tgt) == [text |-> text, src |-> tgt, tgt |-> src]

\* Lines 66-68: the arguments run_in_executor hands to self.translate
JobArgs(text, src, tgt) == [text |-> text, src |-> src, tgt |-> tgt]

\* Mutant: translate is called in the coroutine itself.
OffloadedNever(c) == FALSE

\* Lines 65-68: loop.run_in_executor(None, ...) runs the call on a thread of
\* the default executor and gives a future, which the coroutine awaits.
Offloaded(c) == TRUE

\* No call.  loop: the task the event loop is executing ("none" between two
\* steps); job: the synchronous call ("none", "queued", "running", "finished");
\* calls: the translate invocations made; others: steps other tasks of the
\* loop took while translate was running.
NoAsync ==
  [pc |-> "idle", cls |-> NoClass, args |-> JobArgs("", "-", "-"), loop |-> "none",
   job |-> "none", calls |-> << >>, answer |-> Returned("-"), out |-> Returned("-"),
   others |-> 0]

\* await provider.translate_async(text, src, tgt) with the default
\* implementation: the coroutine runs up to its first suspension.
AsyncCall(c, text, src, tgt) ==
  /\ aio.pc = "idle"
  /\ aio.loop = "none"
  /\ aio' = IF Delegates(c)
            THEN [NoAsync EXCEPT !.pc = "awaiting", !.cls = c, !.args = [text |-> text, src |-> src, tgt |-> tgt],
                                 !.job = "queued",
                                 !.loop = IF Offloaded(c) THEN "none" ELSE "caller"]
            ELSE [NoAsync EXCEPT !.pc = "done", !.cls = c, !.args = [text |-> text, src |-> src, tgt |-> tgt],
                                 !.out = Raises("NotImplementedError")]
  /\ UNCHANGED <<basevars, lang, cleared, made, missed>>

\* The synchronous translate starts with the arguments handed over.
JobStart ==
  /\ aio.job = "queued"
  /\ aio' = [aio EXCEPT !.job = "running",
                        !.calls = Append(@, JobArgs(aio.args.text, aio.args.src, aio.args.tgt))]
  /\ UNCHANGED <<basevars, lang, cleared, made, missed>>

\* translate returns a response of some status, or raises.
JobFinish ==
  /\ aio.job = "running"
  /\ \E o \in {Returned(st) : st \in Statuses} \cup {Raises("TranslationError")} :
       aio' = [aio EXCEPT !.job = "finished", !.answer = o]
  /\ UNCHANGED <<basevars, lang, cleared, made, missed>>

\* The future is done: the awaiting coroutine resumes and returns the
\* response (or the exception is raised in it).
AsyncResume ==
  /\ aio.pc = "awaiting"
  /\ aio.job = "finished"
  /\ aio.loop \in {"none", "caller"}
  /\ aio' = [aio EXCEPT !.pc = "done", !.out = aio.answer, !.loop = "none"]
  /\ UNCHANGED <<basevars, lang, cleared, made, missed>>

AsyncReturn ==
  /\ aio.pc = "done"
  /\ aio' = NoAsync
  /\ UNCHANGED <<basevars, lang, cleared, made, missed>>

\* Another task of the same event loop takes a step while translate runs
\* (its steps at other times change nothing here).
OtherStep ==
  /\ aio.loop = "none"
  /\ aio.job = "running"
  /\ aio.others < MaxOtherSteps
  /\ aio' = [aio EXCEPT !.others = @ + 1]
  /\ UNCHANGED <<basevars, lang, cleared, made, missed>>

\* ------------------------------------------------------------------ language codes
MaxCodeLen == 3    \* length of the codes tried exhaustively

\* A code is the sequence of its characters; NL is the newline.
LowerChars == {"a", "d", "e", "f", "h", "i", "l", "n", "r", "s", "u", "v", "z"}
UpperChars == {"H", "S", "U"}
NL         == "\n"

AllIn(str, set) == \A i \in 1..Len(str) : str[i] \in set

\* (-[A-Z]{2})? up to the end
RegionPart(rest) ==
  \/ rest = << >>
  \/ Len(rest) = 3 /\ rest[1] = "-" /\ AllIn(SubSeq(rest, 2, 3), UpperChars)

\* (-[A-Z][a-z]{3})?(-[A-Z]{2})? up to the end
ScriptPart(rest) ==
  \/ RegionPart(rest)
  \/ /\ Len(rest) >= 5
     /\ rest[1] = "-"
     /\ rest[2] \in UpperChars
     /\ AllIn(SubSeq(rest, 3, 5), LowerChars)
     /\ RegionPart(SubSeq(rest, 6, Len(rest)))

\* [a-z]{2,3}(-[A-Z][a-z]{3})?(-[A-Z]{2})? over the whole of str
FullMatch(str) ==
  \E n \in {2, 3} :
    /\ Len(str) >= n
    /\ AllIn(SubSeq(str, 1, n), LowerChars)
    /\ ScriptPart(SubSeq(str, n + 1, Len(str)))

\* utils.py lines 7-10: re.match with ^...$; `$` also matches just before a
\* newline that ends the string.
ValidateLanguageCode(code) ==
  \/ FullMatch(code)
  \/ code # << >> /\ code[Len(code)] = NL /\ FullMatch(SubSeq(code, 1, Len(code) - 1))

\* Mutant: the characters are kept as they are.
ToLowerKeep(ch) == ch

\* str.lower(), character by character
ToLower(ch) ==
  CASE ch = "H" -> "h"
    [] ch = "S" -> "s"
    [] ch = "U" -> "u"
    [] OTHER -> ch

CodeResult(kind, value) == [kind |-> kind, value |-> value]

\* utils.py lines 13-17
NormalizeLanguageCode(code) ==
  IF ~ValidateLanguageCode(code)
  THEN CodeResult("ValidationError", << >>)
  ELSE CodeResult("returned", [i \in 1..Len(code) |-> ToLower(code[i])])

NoLang == [op |-> "none", code |-> << >>, valid |-> FALSE, out |-> CodeResult("none", << >>)]

ValidateCall(code) ==
  /\ lang.op = "none"
  /\ lang' = [NoLang EXCEPT !.op = "validate", !.code = code, !.valid = ValidateLanguageCode(code)]
  /\ UNCHANGED <<basevars, aio, cleared, made, missed>>

NormalizeCall(code) ==
  /\ lang.op = "none"
  /\ lang' = [NoLang EXCEPT !.op = "normalize", !.code = code, !.out = NormalizeLanguageCode(code)]
  /\ UNCHANGED <<basevars, aio, cleared, made, missed>>

LangReturn ==
  /\ lang.op # "none"
  /\ lang' = NoLang
  /\ UNCHANGED <<basevars, aio, cleared, made, missed>>

\* ------------------------------------------------------------------ specifications
\* The caller has not called discover_providers yet.
NoPrev == [valid |-> FALSE, why |-> "-", names |-> << >>, keys |-> << >>]

\* The caller has not called clear_registry yet.
NoCleared == [valid |-> FALSE, memo |-> {}]

\* The registry module right after import, no call running.
RegistryInit(ver, eps, tasks) ==
  /\ registry = << >>
  /\ cache = << >>
  /\ lock = 0
  /\ version = ver
  /\ entryPoints = eps
  /\ todo = tasks
  /\ pc = [t \in Threads |-> "idle"]
  /\ op = [t \in Threads |-> "-"]
  /\ name = [t \in Threads |-> NoName]
  /\ cls = [t \in Threads |-> NoClass]
  /\ res = [t \in Threads |-> NoRes]
  /\ scan = [t \in Threads |-> NoScan]

InitWith(ver, eps, tasks) ==
  /\ RegistryInit(ver, eps, tasks)
  /\ prev = NoPrev
  /\ inst = NoInst
  /\ hc = NoHealth
  /\ bulk = NoBulk
  /\ resp = NoResp
  /\ limiter = NoLimiter
  /\ clock = StartTime
  /\ callers = [t \in Threads |-> NoCaller]
  /\ aio = NoAsync
  /\ lang = NoLang
  /\ cleared = NoCleared
  /\ made = NoMade
  /\ missed = {}

\* Spec: threads race on register_provider, get_provider and clear_registry
\* with well-formed arguments.
RaceNames   == {NA, NB}
RaceClasses == {"ProvA", "ProvA2"}
LookupNames == {NA}

Init == InitWith(V018, << >>, {})

Next ==
  \E t \in Threads :
    \/ \E nm \in RaceNames, c \in RaceClasses : RegisterCall(t, nm, c)
    \/ AcquireLock(t)
    \/ RegInsert(t)
    \/ \E nm \in LookupNames : GetCall(t, nm)
    \/ GetRead(t)
    \/ GetList(t)
    \/ GetStore(t)
    \/ ClearCall(t)
    \/ ClearCache(t)
    \/ Return(t)

Spec == Init /\ [][Next]_vars

\* SpecRace: the same threads with register_provider and get_provider only, so
\* that a registered name stays registered.
NextRace ==
  \E t \in Threads :
    \/ \E nm \in RaceNames, c \in RaceClasses : RegisterCall(t, nm, c)
    \/ AcquireLock(t)
    \/ RegInsert(t)
    \/ \E nm \in RaceNames : GetCall(t, nm)
    \/ GetRead(t)
    \/ GetList(t)
    \/ GetStore(t)
    \/ Return(t)

SpecRace == Init /\ [][NextRace]_vars

\* SpecSeq: one caller at a time (no call overlaps another), every kind of
\* argument, under each running framework version.
Caller      == 1
SeqNames    == {NA, NAB, NB, NEmpty, NInt, NNone}
SeqClasses  == {"ProvA", "ProvB", "ProvNew", "Plain", "Inst"}
SeqLookups  == {NA, NAB, NB}
SeqVersions == {V018, V020, VUnknown}

InitSeq == \E ver \in SeqVersions : InitWith(ver, << >>, {})

NextSeq ==
  \/ \E nm \in SeqNames, c \in SeqClasses : RegisterCall(Caller, nm, c)
  \/ AcquireLock(Caller)
  \/ RegInsert(Caller)
  \/ \E nm \in SeqLookups : GetCall(Caller, nm)
  \/ GetRead(Caller)
  \/ GetList(Caller)
  \/ GetStore(Caller)
  \/ ListCall(Caller)
  \/ ClearCall(Caller)
  \/ ClearCache(Caller)
  \/ Return(Caller)

SpecSeq == InitSeq /\ [][NextSeq]_vars

\* SpecDistinct: tests/test_registry.py test_thread_safety.  The registry was
\* cleared; an executor hands the tasks, in order, to its worker threads, and
\* task i registers its own provider class under its own name "mock_i".
TaskName(i) == StrName(<<i>>)

TakeTask(t) ==
  /\ todo # {}
  /\ LET i == CHOOSE j \in todo : \A k \in todo : j <= k IN
       /\ RegisterStart(t, TaskName(i), "ProvA")
       /\ todo' = todo \ {i}

InitDistinct == InitWith(V018, << >>, 1..MaxTasks)

NextDistinct ==
  \E t \in Threads :
    \/ TakeTask(t)
    \/ AcquireLock(t)
    \/ RegInsert(t)
    \/ Return(t)

SpecDistinct == InitDistinct /\ [][NextDistinct]_vars

\* SpecDiscover: one thread scans the entry points, whatever the packaging
\* metadata declares, while the other threads register and clear.
Scanner    == 1
EntryKinds == {BrokenEntry, Entry("ProvA"), Entry("ProvA2"), Entry("ProvB"), Entry("ProvAnon")}

EntryLists == UNION {[1..n -> EntryKinds] : n \in 0..MaxEntries}

InitDiscover == \E eps \in EntryLists : InitWith(V020, eps, {})

NextDiscover ==
  \/ \E raiseErrors \in BOOLEAN : DiscoverCall(Scanner, raiseErrors)
  \/ DiscLoad(Scanner)
  \/ \E t \in Threads \ {Scanner} : RegisterCall(t, NA, "ProvA2")
  \/ \E t \in Threads \ {Scanner} : ClearCall(t)
  \/ \E t \in Threads :
       \/ AcquireLock(t)
       \/ RegInsert(t)
       \/ ClearCache(t)
       \/ Return(t)

SpecDiscover == InitDiscover /\ [][NextDiscover]_vars

\* SpecTwice: one caller calls discover_providers again and again over the
\* same entry points, keeping what the previous call returned and the names
\* the registry listed after it.
ReturnNoting(t) ==
  /\ Finished(t, "discover")
  /\ prev' = IF res[t].kind = "ok"
             THEN [valid |-> TRUE, why |-> res[t].why, names |-> res[t].names,
                   keys |-> ListProviders(registry)]
             ELSE prev
  /\ pc' = [pc EXCEPT ![t] = "idle"]
  /\ op' = [op EXCEPT ![t] = "-"]
  /\ name' = [name EXCEPT ![t] = NoName]
  /\ cls' = [cls EXCEPT ![t] = NoClass]
  /\ res' = [res EXCEPT ![t] = NoRes]
  /\ scan' = [scan EXCEPT ![t] = NoScan]
  /\ UNCHANGED <<registry, cache, lock, version, entryPoints, todo, inst, hc, bulk, resp,
                 limiter, clock, callers, aio, lang, cleared, made, missed>>

InitTwice == \E eps \in EntryLists : InitWith(V020, eps, {})

NextTwice ==
  \/ \E raiseErrors \in BOOLEAN : DiscoverCall(Caller, raiseErrors)
  \/ DiscLoad(Caller)
  \/ AcquireLock(Caller)
  \/ RegInsert(Caller)
  \/ ReturnNoting(Caller)

SpecTwice == InitTwice /\ [][NextTwice]_vars

\* SpecClear: one caller registers providers and looks them up, then calls
\* clear_registry, noting which names were memoized at that moment, and goes
\* on with get_provider and list_providers.
ClearNoting(t) ==
  /\ ClearStart(t)
  /\ cleared' = [valid |-> TRUE, memo |-> DOMAIN cache]
  /\ UNCHANGED <<version, entryPoints, prev, inst, hc, bulk, resp, limiter, clock, callers,
                 aio, lang, made, missed>>

ClearNames   == {NA, NB}
ClearClasses == {"ProvA", "ProvA2"}

InitClear == InitWith(V020, << >>, {})

NextClear ==
  \/ /\ ~cleared.valid
     /\ \E nm \in ClearNames, c \in ClearClasses : RegisterCall(Caller, nm, c)
  \/ AcquireLock(Caller)
  \/ RegInsert(Caller)
  \/ \E nm \in ClearNames : GetCall(Caller, nm)
  \/ GetRead(Caller)
  \/ GetList(Caller)
  \/ GetStore(Caller)
  \/ ListCall(Caller)
  \/ ClearNoting(Caller)
  \/ ClearCache(Caller)
  \/ Return(Caller)

SpecClear == InitClear /\ [][NextClear]_vars

\* SpecMiss: one caller looks names up, registers providers and clears the
\* registry in any order, remembering the names whose lookup it has seen fail.
ReturnNotingMiss(t) ==
  /\ ReturnStart(t)
  /\ missed' = IF Finished(t, "get") /\ res[t].kind = "ProviderNotFoundError"
               THEN missed \cup {name[t].chars}
               ELSE missed
  /\ UNCHANGED <<version, entryPoints, prev, inst, hc, bulk, resp, limiter, clock, callers,
                 aio, lang, cleared, made>>

InitMiss == InitWith(V020, << >>, {})

NextMiss ==
  \/ \E nm \in ClearNames, c \in ClearClasses : RegisterCall(Caller, nm, c)
  \/ AcquireLock(Caller)
  \/ RegInsert(Caller)
  \/ \E nm \in ClearNames : GetCall(Caller, nm)
  \/ GetRead(Caller)
  \/ GetList(Caller)
  \/ GetStore(Caller)
  \/ ClearCall(Caller)
  \/ ClearCache(Caller)
  \/ ReturnNotingMiss(Caller)

SpecMiss == InitMiss /\ [][NextMiss]_vars

\* SpecConstruct: provider classes are instantiated with every kind of config
\* under a running version that is or is not recent enough for them.
ConstructVersions == {V018, V020, V100}

InitConstruct == \E ver \in ConstructVersions : InitWith(ver, << >>, {})

NextConstruct ==
  \/ \E c \in ProviderClasses, cfg \in Configs : ConstructCall(c, cfg)
  \/ Discard

SpecConstruct == InitConstruct /\ [][NextConstruct]_vars

\* SpecConfig: the caller makes a config, with every combination of absent,
\* empty and given user-agent fields, and constructs providers with it.
KeyValues    == {NEmpty, NA}
RegionValues == {NNone, NA}

InitConfig == InitWith(V020, << >>, {})

NextConfig ==
  \/ \E k \in KeyValues, r \in RegionValues, n \in FieldValues, v \in FieldValues :
       MakeConfig(k, r, n, v)
  \/ \E c \in ProviderClasses : ConstructFrom(c)
  \/ Discard
  \/ DropConfig

SpecConfig == InitConfig /\ [][NextConfig]_vars

\* SpecHealth: health checks of the names "a" and "b" with good and bad
\* configs, while a thread registers providers under those names.
HealthNames   == {NA, NB}
HealthConfigs == {Config(NA, NA), Config(NEmpty, NA), Config(NA, NNone)}
HealthRegs    == {<<NA, "ProvA">>, <<NA, "ProvA2">>, <<NB, "ProvB">>}
HealthTexts   == {"test", "ping"}

InitHealth == InitWith(V020, << >>, {})

NextHealth ==
  \/ \E r \in HealthRegs : RegisterCall(Caller, r[1], r[2])
  \/ AcquireLock(Caller)
  \/ RegInsert(Caller)
  \/ Return(Caller)
  \/ \E nm \in HealthNames, cfg \in HealthConfigs, text \in HealthTexts :
       HealthCall(nm, cfg, text)
  \/ HealthAttempt
  \/ HealthWait
  \/ HealthReturn

SpecHealth == InitHealth /\ [][NextHealth]_vars

\* SpecBulk: bulk_translate on lists of up to MaxTexts texts, repeats included.
TextValues == {"hello", "bye"}
TextLists  == UNION {[1..n -> TextValues] : n \in 0..MaxTexts}

InitBulk == InitWith(V020, << >>, {})

NextBulk ==
  \/ \E texts \in TextLists, tgt \in {"fr", "de"} : BulkCall(texts, "en", tgt)
  \/ BulkStep
  \/ BulkReturn

SpecBulk == InitBulk /\ [][NextBulk]_vars

\* SpecResponse: _create_response with every kind of error and metadata argument.
ErrorValues == {NNone, NEmpty, NAB}
MetaValues  == {Meta(FALSE, {}), Meta(TRUE, {}), Meta(TRUE, {"k"})}

InitResponse == InitWith(V020, << >>, {})

NextResponse ==
  \/ \E c \in {"ProvA", "ProvB"}, text \in {"", "hola"}, tgt \in {"fr", "es"},
        error \in ErrorValues, metadata \in MetaValues :
       CreateResponseCall(c, text, tgt, Len(text), error, metadata)
  \/ ResponseReturn

SpecResponse == InitResponse /\ [][NextResponse]_vars

\* SpecPaceThreads / SpecPaceLoop: callers pace their requests on one shared
\* provider instance, each on a thread with an event loop of its own, or all
\* as tasks of one event loop.
Rates == {0, 1, 2}

InitPace == InitWith(V020, << >>, {})

PaceStep(t, oneLoop) ==
  \/ RateCall(t, oneLoop)
  \/ CheckLock(t, oneLoop)
  \/ MakeLock(t, oneLoop)
  \/ EnterLock(t, oneLoop)
  \/ AcquireWaited(t, oneLoop)
  \/ ReadLast(t, oneLoop)
  \/ Wake(t, oneLoop)
  \/ WriteLast(t, oneLoop)
  \/ RateReturn(t, oneLoop)

NextPaceThreads ==
  \/ \E rate \in Rates : NewLimiter(rate)
  \/ \E t \in Threads : PaceStep(t, FALSE)
  \/ Tick

SpecPaceThreads == InitPace /\ [][NextPaceThreads]_vars

NextPaceLoop ==
  \/ \E rate \in Rates : NewLimiter(rate)
  \/ \E t \in Threads : PaceStep(t, TRUE)
  \/ Tick

SpecPaceLoop == InitPace /\ [][NextPaceLoop]_vars

\* SpecPaceLive / SpecPaceLoopLive: the same callers under fair scheduling: a
\* caller that can take its next step inside _handle_rate_limit takes it, and
\* time passes.  No caller is cancelled.  On threads a wake-up can be lost.
PaceProgress(t, oneLoop) ==
  \/ CheckLock(t, oneLoop)
  \/ MakeLock(t, oneLoop)
  \/ EnterLock(t, oneLoop)
  \/ AcquireWaited(t, oneLoop)
  \/ ReadLast(t, oneLoop)
  \/ Wake(t, oneLoop)
  \/ WriteLast(t, oneLoop)
  \/ RateReturn(t, oneLoop)

NextPaceLive ==
  \/ \E rate \in Rates : NewLimiter(rate)
  \/ \E t \in Threads : PaceStep(t, FALSE)
  \/ \E t \in Threads : LoseWake(t)
  \/ Tick

SpecPaceLive ==
  /\ InitPace
  /\ [][NextPaceLive]_vars
  /\ \A t \in Threads : WF_vars(PaceProgress(t, FALSE))
  /\ WF_vars(Tick)

SpecPaceLoopLive ==
  /\ SpecPaceLoop
  /\ \A t \in Threads : WF_vars(PaceProgress(t, TRUE))
  /\ WF_vars(Tick)

\* SpecAsync: the default translate_async is called on instances of the
\* classes that can be built and do not override it, with and without declared
\* async support, other tasks sharing the event loop.
AsyncClasses ==
  {c \in ProviderClasses : /\ ~ProviderTraits[c].overridesAsync
                           /\ \E cfg \in Configs : Instance \in Construct(c, cfg, V020)}

InitAsync == InitWith(V020, << >>, {})

NextAsync ==
  \/ \E c \in AsyncClasses, text \in TextValues, tgt \in {"fr", "de"} : AsyncCall(c, text, "en", tgt)
  \/ JobStart
  \/ JobFinish
  \/ AsyncResume
  \/ AsyncReturn
  \/ OtherStep

SpecAsync == InitAsync /\ [][NextAsync]_vars

\* SpecLang: the two language-code functions on the codes of the tests and
\* on every short string over a few characters.
EnUS    == <<"e", "n", "-", "U", "S">>
EnUs    == <<"e", "n", "-", "u", "s">>
ZhHans  == <<"z", "h", "-", "H", "a", "n", "s">>
Fr      == <<"f", "r">>
Invalid == <<"i", "n", "v", "a", "l", "i", "d">>

CodeChars  == {"e", "n", "U", "S", "-", NL}
ShortCodes == UNION {[1..n -> CodeChars] : n \in 0..MaxCodeLen}
Codes      == ShortCodes \cup {EnUS, EnUs, ZhHans, Fr, Invalid}

InitLang == InitWith(V020, << >>, {})

NextLang ==
  \/ \E code \in Codes : ValidateCall(code)
  \/ \E code \in Codes : NormalizeCall(code)
  \/ LangReturn

SpecLang == InitLang /\ [][NextLang]_vars

\* ------------------------------------------------------------------ claims
\* This step is thread t entering a call of operation o.
Enters(t, o) == pc[t] = "idle" /\ pc'[t] # "idle" /\ op'[t] = o

\* C1: the existence check and the insert of register_provider are atomic:
\* no call inserts under a name that another call has inserted meanwhile
\* (no insert overwrites an entry).
C1_InsertNeverOverwrites ==
  [][\A t \in Threads :
       (pc[t] = "reg_insert" /\ pc'[t] # "reg_insert") => name[t].chars \notin KeySet(registry)]_vars

\* C2: registering pairwise distinct names from parallel workers: every call
\* succeeds, and the registry holds exactly one entry per name whose call has
\* inserted, none lost and none duplicated; once all tasks are done it holds
\* exactly MaxTasks entries.
C2_DistinctNamesAllRegistered ==
  /\ \A t \in Threads : pc[t] = "done" => res[t] = Ok
  /\ Cardinality(KeySet(registry)) = Len(registry)
  /\ KeySet(registry) =
       {TaskName(i).chars : i \in (1..MaxTasks) \ todo}
         \ {name[t].chars : t \in {u \in Threads : pc[u] \in {"reg_lock", "reg_insert"}}}
  /\ (todo = {} /\ \A t \in Threads : pc[t] \in {"idle", "done"}) => Len(registry) = MaxTasks

C2_Witness ==
  /\ todo = {}
  /\ \A t \in Threads : pc[t] = "idle"
  /\ Len(registry) = MaxTasks

\* C3: a register_provider call for a name that is already registered fails
\* with ProviderError and leaves the registry as it was (the first-registered
\* type stays).
C3_DuplicateRejected ==
  [][\A t \in Threads :
       (Enters(t, "register") /\ Has(registry, name'[t]))
         => /\ pc'[t] = "done"
            /\ res'[t].kind = "ProviderError"
            /\ registry' = registry]_vars

C3_Witness ==
  \E t \in Threads :
    /\ Finished(t, "register")
    /\ res[t] = ProviderError("duplicate")
    /\ Has(registry, name[t])
    /\ Lookup(registry, name[t].chars) # cls[t]

\* C4: register_provider fails with ProviderError for a name that is empty or
\* no string and for a candidate that is no subclass of
\* BaseTranslationProvider; every value in the registry is a provider type.
C4_OnlyProviderTypesStored ==
  /\ \A t \in Threads :
       (Finished(t, "register") /\ (name[t].chars = << >> \/ ~name[t].str \/ ~IsProviderType(cls[t])))
         => res[t].kind = "ProviderError"
  /\ \A i \in 1..Len(registry) : IsProviderType(registry[i].cls)

C4_Witness ==
  /\ Len(registry) > 0
  /\ \E t \in Threads :
       /\ Finished(t, "register")
       /\ cls[t] = "Inst"
       /\ name[t] = NAB
       /\ res[t] = ProviderError("type")

\* C5: register_provider fails with ProviderError when the candidate type
\* declares a minimum framework version newer than the running version, and
\* the registry is left as it was.  The cases: 1.0.0 is newer than 0.1.8 and
\* than 0.2.0, and 0.2 is newer than 0.1.8 (and not newer than 0.2.0).
DeclaresNewer(c, ver) ==
  \/ c = "ProvNew" /\ ver \in {V018, V020}
  \/ c = "ProvB" /\ ver = V018

C5_NewerMinVersionRejected ==
  [][\A t \in Threads :
       (Enters(t, "register") /\ DeclaresNewer(cls'[t], version))
         => /\ pc'[t] = "done"
            /\ res'[t].kind = "ProviderError"
            /\ registry' = registry]_vars

C5_Witness ==
  \E t \in Threads :
    /\ Finished(t, "register")
    /\ cls[t] = "ProvB"
    /\ version = V018
    /\ res[t] = ProviderError("version")
    /\ ~Has(registry, name[t])

\* C6: get_provider(name) returns the type registered under name when the name
\* is registered (here: for a call made while no other call is running).
C6_GetReturnsRegisteredType ==
  [][\A t \in Threads :
       (/\ Enters(t, "get")
        /\ \A u \in Threads : pc[u] = "idle"
        /\ Has(registry, name'[t])
        /\ pc'[t] = "done")
         => res'[t].cls = Lookup(registry, name'[t].chars)]_vars

\* C7: once a get_provider(name) has succeeded, every later get_provider(name)
\* returns the same type, from the memo, without reading the registry (no
\* call invalidates the cache in SpecRace).
C7_LaterLookupsReturnSameType ==
  [][\A t, u \in Threads :
       (/\ u # t
        /\ Finished(u, "get") /\ res[u].kind = "ok"
        /\ Enters(t, "get") /\ name'[t] = name[u])
         => /\ pc'[t] = "done"
            /\ ~res'[t].scanned
            /\ res'[t].cls = res[u].cls]_vars

\* C8: concurrent first lookups of the same registered name all return the
\* same provider type.
C8_ConcurrentLookupsAgree ==
  \A t, u \in Threads :
    (/\ Finished(t, "get") /\ Finished(u, "get")
     /\ name[t] = name[u]
     /\ res[t].kind = "ok" /\ res[u].kind = "ok"
     /\ res[t].scanned /\ res[u].scanned)
      => res[t].cls = res[u].cls

\* C9: list_providers() returns exactly the registered names, each once, in
\* ascending lexicographic order, whatever the order of registration.
C9_ListSortedExact ==
  \A t \in Threads :
    Finished(t, "list") =>
      LET l == res[t].names IN
        /\ {l[i] : i \in 1..Len(l)} = KeySet(registry)
        /\ Len(l) = Cardinality(KeySet(registry))
        /\ \A i \in 1..(Len(l) - 1) : LexLess(l[i], l[i + 1])

C9_Witness ==
  \E t \in Threads :
    /\ Finished(t, "list")
    /\ Keys(registry) = <<NB.chars, NAB.chars, NA.chars>>
    /\ res[t].names = <<NA.chars, NAB.chars, NB.chars>>

Scanned(t) == Finished(t, "discover") /\ res[t].why # "entry_points"

\* C11: with raise_errors false no failure of an entry point reaches the
\* caller, and no failure keeps a later entry point from being processed: a
\* turn of the loop on an entry point either goes on to register it or moves to
\* the next entry point with the list unchanged, the call ends only after the
\* last entry point, and it always ends by returning a list.
C11_FailuresSwallowedScanContinues ==
  [][\A t \in Threads :
       (op'[t] = "discover" /\ ~scan'[t].raise) =>
         /\ (pc[t] # "done" /\ pc'[t] = "done") => res'[t].kind = "ok"
         /\ (pc[t] = "disc_load" /\ <<pc[t], scan[t]>> # <<pc'[t], scan'[t]>>) =>
              IF scan[t].idx <= Len(entryPoints)
              THEN \/ pc'[t] = "reg_lock" /\ scan'[t] = scan[t]
                   \/ /\ pc'[t] = "disc_load"
                      /\ scan'[t].idx = scan[t].idx + 1
                      /\ scan'[t].registered = scan[t].registered
              ELSE pc'[t] = "done" /\ res'[t].names = scan[t].registered]_vars

C11_Witness ==
  \E t \in Threads :
    /\ Scanned(t)
    /\ ~scan[t].raise
    /\ entryPoints = <<BrokenEntry, Entry("ProvB")>>
    /\ res[t].names = <<NB.chars>>

\* C12: with raise_errors true the first failing entry point ends the scan and
\* its error reaches the caller: a call that ends with an error stopped at an
\* entry point before which every entry point was registered, and a call that
\* returns a list registered every entry point.
C12_FirstFailurePropagates ==
  \A t \in Threads :
    (Scanned(t) /\ scan[t].raise) =>
      IF res[t].kind = "ok"
      THEN Len(res[t].names) = Len(entryPoints)
      ELSE /\ res[t].kind \in {"ProviderError", "Exception"}
           /\ scan[t].idx \in 1..Len(entryPoints)
           /\ Len(scan[t].registered) = scan[t].idx - 1

C12_Witness ==
  \E t \in Threads :
    /\ Scanned(t)
    /\ scan[t].raise
    /\ entryPoints = <<Entry("ProvB"), Entry("ProvAnon"), Entry("ProvA")>> \/ entryPoints = <<Entry("ProvB"), Entry("ProvAnon")>>
    /\ res[t] = ProviderError("missing name")
    /\ scan[t].registered = <<NB.chars>>

\* The names of a sequence, as a set.
NameSet(names) == {names[i] : i \in 1..Len(names)}

\* C13: discover_providers called twice in succession over the same entry
\* points returns the same set of names both times, and after the second call
\* the registry lists the names it listed after the first, each once.
C13_TwiceSameNames ==
  (Finished(Caller, "discover") /\ res[Caller].kind = "ok" /\ prev.valid
     /\ res[Caller].why # "entry_points" /\ prev.why # "entry_points") =>
    /\ NameSet(res[Caller].names) = NameSet(prev.names)
    /\ ListProviders(registry) = prev.keys
    /\ \A i, j \in 1..Len(registry) : registry[i].name = registry[j].name => i = j

\* The provider contract has every provider type declare the class attribute
\* `name` (possibly empty); a subclass that sets none is refused by the
\* constructor with AttributeError whatever the config.
DeclaresName(c) == IsProviderType(c) /\ ClassTable[c].hasName

AllRaised == hc.pc = "done" /\ \A i \in 1..Len(hc.log) : hc.log[i].what = "raised"

\* C14: check_provider_health returns true if and only if the response of
\* its attempt has status SUCCESS; FAILED and PENDING make it return false.
C14_TrueIffSuccess ==
  (hc.pc = "done" /\ hc.out.kind = "returned") =>
    /\ hc.log[Len(hc.log)].what = "returned"
    /\ hc.out.ok <=> hc.log[Len(hc.log)].val = "SUCCESS"

C14_Witness ==
  /\ hc.pc = "done"
  /\ hc.log = <<Raises("ProviderNotFoundError"), Returned("SUCCESS")>>
  /\ hc.out = HealthResult("returned", TRUE, "-")

\* C15: a response with status FAILED never triggers a retry: the attempt
\* that returned it is the last one, no wait follows it (so a check whose first
\* attempt returns FAILED made exactly one attempt and never waited), and the
\* check returns false.
C15_FailedResponseNotRetried ==
  \A i \in 1..Len(hc.log) :
    hc.log[i] = Returned("FAILED") =>
      /\ i = Len(hc.log)
      /\ hc.pc = "done"
      /\ hc.attempt = i
      /\ Len(hc.waits) = i - 1
      /\ hc.out = HealthResult("returned", FALSE, "-")

C15_Witness ==
  /\ hc.pc = "done"
  /\ hc.log = <<Returned("FAILED")>>
  /\ hc.attempt = 1
  /\ hc.waits = << >>
  /\ hc.out = HealthResult("returned", FALSE, "-")

\* C16: if every attempt raises, exactly 3 attempts are made and the caller
\* then gets the error raised by the final attempt; the check never resolves
\* to false.
C16_FinalErrorPropagates ==
  AllRaised =>
    /\ Len(hc.log) = StopAfter
    /\ hc.out.kind # "returned"
    /\ hc.out.kind = hc.log[Len(hc.log)].val

\* C19: the default bulk_translate calls translate exactly once per text, in
\* input order and with the given language pair, and returns the responses in
\* that order: as many as there are texts, the i-th being the response of the
\* call for text i; an empty input gives an empty list.
C19_BulkOnePerTextInOrder ==
  /\ Len(bulk.calls) <= Len(bulk.texts)
  /\ \A i \in 1..Len(bulk.calls) :
       bulk.calls[i].args = [text |-> bulk.texts[i], src |-> bulk.src, tgt |-> bulk.tgt]
  /\ (bulk.pc = "done" /\ bulk.kind = "returned") =>
       /\ Len(bulk.calls) = Len(bulk.texts)
       /\ Len(bulk.out) = Len(bulk.texts)
       /\ \A i \in 1..Len(bulk.texts) : bulk.out[i] = bulk.calls[i].resp

C19_Witness ==
  /\ bulk.pc = "done"
  /\ bulk.kind = "returned"
  /\ bulk.texts = <<"hello", "bye">>
  /\ bulk.out[1].text = "hello" /\ bulk.out[1].call = 1
  /\ bulk.out[2].text = "bye" /\ bulk.out[2].call = 2

\* C20: the response built by _create_response has status FAILED if and only
\* if an error was given (be it the empty string) and SUCCESS otherwise, and
\* its error field is the given error, so that the error is present exactly
\* when the status is FAILED.
C20_FailedIffErrorGiven ==
  resp.state = "built" =>
    /\ resp.out.error = resp.error
    /\ resp.out.status = (IF resp.error # NNone THEN "FAILED" ELSE "SUCCESS")
    /\ resp.out.error # NNone <=> resp.out.status = "FAILED"

\* Callers between reading _last_request_time and writing it.
InCheckThenAct == {t \in Threads : callers[t].pc \in {"read", "sleep", "write"}}

\* C21: on an instance with rate_limit r > 0 the request times recorded by
\* two successive calls are at least 1/r apart, whatever the callers.
C21_RecordedTimesSpaced ==
  limiter.rate > 0 =>
    \A i \in 1..(Len(limiter.stamps) - 1) :
      limiter.stamps[i + 1] - limiter.stamps[i] >= Interval(limiter.rate)

\* C22: at most one caller at a time is between reading _last_request_time
\* and writing it.
C22_CheckThenActAtomic == Cardinality(InCheckThenAct) <= 1

\* C23: an instance holds no Lock after construction, and at most one Lock is
\* ever created for it, whatever the interleaving of its first callers.
C23_OneLockPerInstance ==
  /\ (limiter.built /\ \A t \in Threads : callers[t].pc = "idle" /\ limiter.stamps = << >>)
       => limiter.lock = 0
  /\ Len(limiter.held) <= 1

\* C24: for a provider that does not declare async support the default
\* translate_async invokes translate(text, s, t) exactly once and resolves to
\* the response that call returned.
C24_DelegatesOnce ==
  (aio.pc # "idle" /\ ~ProviderTraits[aio.cls].supportsAsync) =>
    /\ Len(aio.calls) <= 1
    /\ \A i \in 1..Len(aio.calls) : aio.calls[i] = aio.args
    /\ aio.pc = "done" => (Len(aio.calls) = 1 /\ aio.out = aio.answer)

C24_Witness ==
  /\ aio.pc = "done"
  /\ aio.cls = "ProvA"
  /\ aio.calls = <<[text |-> "hello", src |-> "en", tgt |-> "fr"]>>
  /\ aio.out = Returned("SUCCESS")

\* C25: for a provider that declares supports_async without overriding
\* translate_async the call fails with NotImplementedError and the
\* synchronous translate is never invoked.
C25_NotImplementedNoTranslate ==
  (aio.pc # "idle" /\ ProviderTraits[aio.cls].supportsAsync) =>
    /\ aio.pc = "done"
    /\ aio.out = Raises("NotImplementedError")
    /\ aio.calls = << >>
    /\ aio.job = "none"

C25_Witness ==
  /\ aio.pc = "done"
  /\ aio.cls = "ProvB"
  /\ aio.out = Raises("NotImplementedError")

\* C26: while the synchronous translate of a default translate_async runs,
\* the event loop is not occupied by the calling task, which only awaits the
\* completion: other tasks of the loop can take steps.
C26_LoopFreeWhileTranslating ==
  aio.job = "running" =>
    /\ aio.loop = "none"
    /\ aio.pc = "awaiting"
    /\ aio.others < MaxOtherSteps => ENABLED OtherStep

C26_Witness ==
  /\ aio.job = "running"
  /\ aio.pc = "awaiting"
  /\ aio.others = MaxOtherSteps

\* C27: normalize_language_code(c) raises ValidationError exactly when
\* validate_language_code(c) is false, and otherwise returns c in lower case:
\* "en-US" gives "en-us", "invalid" is rejected, and "zh-Hans", "fr" and
\* "en-US" validate.
C27_NormalizeAgreesWithValidate ==
  /\ lang.op = "normalize" =>
       /\ lang.out.kind = "ValidationError" <=> ~ValidateLanguageCode(lang.code)
       /\ lang.out.kind = "returned" =>
            /\ Len(lang.out.value) = Len(lang.code)
            /\ \A i \in 1..Len(lang.code) :
                 /\ lang.out.value[i] \notin UpperChars
                 /\ lang.code[i] \notin UpperChars => lang.out.value[i] = lang.code[i]
       /\ lang.code = EnUS => lang.out = CodeResult("returned", EnUs)
       /\ lang.code = Invalid => lang.out.kind = "ValidationError"
  /\ lang.op = "validate" =>
       /\ lang.code \in {ZhHans, Fr, EnUS} => lang.valid
       /\ lang.code = Invalid => ~lang.valid

C27_Witness ==
  /\ lang.op = "normalize"
  /\ lang.code = EnUS
  /\ lang.out = CodeResult("returned", EnUs)

\* C28: after clear_registry has returned, with no operation running beside
\* it, list_providers() is empty and get_provider(n) fails with
\* ProviderNotFoundError for every name n, the names whose lookup was memoized
\* before the clear included.
C28_ClearedMeansEmptyAndNotFound ==
  (cleared.valid /\ op[Caller] # "clear") =>
    /\ Finished(Caller, "list") => res[Caller].names = << >>
    /\ Finished(Caller, "get") => res[Caller].kind = "ProviderNotFoundError"

C28_Witness ==
  /\ cleared.valid
  /\ Finished(Caller, "get")
  /\ name[Caller].chars \in cleared.memo
  /\ res[Caller].kind = "ProviderNotFoundError"

\* C29: every write to the name-to-type mapping, the insert of
\* register_provider and the emptying of clear_registry, is done by a thread
\* that holds the registry lock.
C29_WritesHoldLock ==
  [][\A t \in Threads :
       (pc'[t] # pc[t] /\ registry' # registry) => lock = t]_vars

\* Exactly one of user_agent_name and user_agent_version is present.
ExactlyOneAgentField(cfg) == (cfg.uaName = NNone) # (cfg.uaVersion = NNone)

\* C30: constructing a configuration with exactly one of user_agent_name and
\* user_agent_version set fails with an error, so no provider instance is
\* constructed holding a config with exactly one of the two fields present.
C30_AgentFieldsTogether ==
  /\ (made.state # "none" /\ ExactlyOneAgentField(made.config)) =>
       /\ made.state = "failed"
       /\ made.out.kind = "ValueError"
  /\ (made.state # "none" /\ ~ExactlyOneAgentField(made.config)) => made.state = "built"
  /\ inst.state # "none" => ~ExactlyOneAgentField(inst.config)

C30_Witness ==
  /\ made.state = "failed"
  /\ made.config.uaName = NA
  /\ made.config.uaVersion = NNone
  /\ made.out = Failure("ValueError", "user_agent")

\* C31: check_provider_health makes at most 3 attempts and stops at the first
\* attempt that does not raise: every attempt before the last one raised, and
\* when the last attempt returned a response the call returns the verdict on
\* that response.
C31_AtMostThreeStopAtFirstReturn ==
  LET n == Len(hc.log) IN
    /\ n <= 3
    /\ hc.attempt <= 3
    /\ \A i \in 1..(n - 1) : hc.log[i].what = "raised"
    /\ (n > 0 /\ hc.log[n].what = "returned") =>
         /\ hc.pc = "done"
         /\ hc.out = HealthResult("returned", hc.log[n].val = "SUCCESS", "-")

C31_Witness ==
  /\ hc.pc = "done"
  /\ Len(hc.log) = 2
  /\ hc.log[1].what = "raised"
  /\ hc.log[2] = Returned("FAILED")
  /\ hc.out = HealthResult("returned", FALSE, "-")

\* C32: the wait between two consecutive attempts is at least 4 and at most
\* 10; there is no wait before the first attempt and none after the last, so
\* k attempts come with k-1 waits.
C32_BackoffBetweenAttempts ==
  /\ \A i \in 1..Len(hc.waits) : hc.waits[i] >= 4 /\ hc.waits[i] <= 10
  /\ hc.pc = "attempt" => Len(hc.log) = hc.attempt - 1 /\ Len(hc.waits) = hc.attempt - 1
  /\ hc.pc = "wait" => Len(hc.log) = hc.attempt /\ Len(hc.waits) = hc.attempt - 1
  /\ hc.pc = "done" => Len(hc.log) = hc.attempt /\ Len(hc.waits) = hc.attempt - 1

C32_Witness ==
  /\ hc.pc = "done"
  /\ Len(hc.log) = 3
  /\ hc.waits = <<4, 4>>

\* The one translation call that attempt i has to make.
ExpectedCall(i) ==
  TranslationCall(IF ProviderTraits[hc.runs[i].cls].supportsAsync
                  THEN "translate_async" ELSE "translate",
                  hc.text, "en", "fr")

\* C33 as stated: in each attempt of check_provider_health exactly one
\* translation call is made, with the given test_text from en to fr.
C33_EachAttemptOneCall ==
  \A i \in 1..Len(hc.runs) : Len(hc.runs[i].calls) = 1 /\ hc.runs[i].calls[1].text = hc.text

\* C33, amended: each attempt in which the provider was looked up and
\* constructed makes exactly one translation call, with the given test_text
\* from en to fr: translate_async when supports_async is true, else translate,
\* never both; an attempt that fails before that makes no translation call.
C33_BuiltAttemptOneCall ==
  \A i \in 1..Len(hc.runs) :
    IF hc.runs[i].built
    THEN hc.runs[i].calls = <<ExpectedCall(i)>>
    ELSE hc.runs[i].calls = << >> /\ hc.runs[i].out.what = "raised"

C33_Witness ==
  /\ Len(hc.runs) = 2
  /\ hc.text = "ping"
  /\ ~hc.runs[1].built
  /\ hc.runs[2].built
  /\ hc.runs[2].cls = "ProvA2"
  /\ hc.runs[2].calls = <<TranslationCall("translate_async", "ping", "en", "fr")>>

\* C34: when config.rate_limit is unset (None or 0), _handle_rate_limit is a
\* no-op: the caller is never suspended (it goes from the call straight to the
\* return), no lock is created and the last request time stays unset.
C34_UnsetRateNoOp ==
  (limiter.built /\ limiter.rate = 0) =>
    /\ \A t \in Threads : callers[t].pc \in {"idle", "returned"}
    /\ limiter.lock = 0
    /\ limiter.held = << >>
    /\ limiter.last = 0
    /\ limiter.stamps = << >>

C34_Witness ==
  /\ limiter.built
  /\ limiter.rate = 0
  /\ \E t \in Threads : callers[t].pc = "returned"

\* C35: in every reachable state, under any interleaving of register_provider,
\* get_provider and clear_registry, each memoized entry of get_provider agrees
\* with the registry: its name is registered, with the memoized type.
C35_MemoAgreesWithRegistry ==
  \A k \in DOMAIN cache :
    /\ k \in KeySet(registry)
    /\ Lookup(registry, k) = cache[k]

\* C36: a failed lookup is not memoized: when get_provider(n) has failed with
\* ProviderNotFoundError and n is registered afterwards, get_provider(n)
\* returns the newly registered type.
C36_FailedLookupNotMemoized ==
  (/\ Finished(Caller, "get")
   /\ name[Caller].chars \in missed
   /\ Has(registry, name[Caller]))
    => /\ res[Caller].kind = "ok"
       /\ res[Caller].cls = Lookup(registry, name[Caller].chars)

C36_Witness ==
  /\ Finished(Caller, "get")
  /\ name[Caller] = NA
  /\ NA.chars \in missed
  /\ res[Caller].kind = "ok"
  /\ res[Caller].cls = "ProvA2"
  /\ res[Caller].scanned

\* C37: a register_provider call that fails leaves the registry mapping and
\* the lookup cache as they were before the call; a call that succeeds adds
\* exactly the one new entry and changes no other entry.
C37_RegisterFrame ==
  [][\A t \in Threads :
       /\ (Enters(t, "register") /\ pc'[t] = "done") =>
            /\ res'[t].kind # "ok"
            /\ registry' = registry
            /\ cache' = cache
       /\ (op[t] = "register" /\ pc[t] = "reg_insert" /\ pc'[t] = "done") =>
            /\ res'[t] = Ok
            /\ cache' = cache
            /\ ~Has(registry, name[t])
            /\ Len(registry') = Len(registry) + 1
            /\ \A i \in 1..Len(registry) : registry'[i] = registry[i]
            /\ registry'[Len(registry')] = [name |-> name[t].chars, cls |-> cls[t]]]_vars

\* The name an entry point's class is registered under.
EntryName(e) == ClassTable[e.cls].nameAttr.chars

\* C38: when discover_providers(raise_errors=True) aborts on a failing entry
\* point, the providers registered from the earlier entry points of that scan
\* remain registered (no rollback), and no entry point after the failing one
\* is loaded or registered: the scan has inserted the names of the entry
\* points before the failing one and nothing else.
C38_AbortKeepsEarlierSkipsLater ==
  (Scanned(Caller) /\ scan[Caller].raise /\ res[Caller].kind # "ok") =>
    LET i == scan[Caller].idx IN
      /\ i \in 1..Len(entryPoints)
      /\ Len(scan[Caller].registered) = i - 1
      /\ \A j \in 1..(i - 1) : scan[Caller].registered[j] = EntryName(entryPoints[j])
      /\ scan[Caller].inserted = {EntryName(entryPoints[j]) : j \in 1..(i - 1)}
      /\ scan[Caller].inserted \subseteq KeySet(registry)

C38_Witness ==
  /\ Scanned(Caller)
  /\ scan[Caller].raise
  /\ entryPoints = <<Entry("ProvB"), BrokenEntry>> \/ entryPoints = <<Entry("ProvB"), BrokenEntry, Entry("ProvA")>>
  /\ res[Caller] = Raised("load")
  /\ scan[Caller].inserted = {NB.chars}
  /\ KeySet(registry) = {NB.chars}

\* What normalize_language_code returns for the code of the call, normalized
\* once more.
NormalizedAgain == NormalizeLanguageCode(lang.out.value)

\* C39: normalize_language_code is idempotent on its outputs: for every code
\* that validates, the normalized code is itself a valid language code and
\* normalizing it again gives the same code.
C39_NormalizeIdempotent ==
  (lang.op = "normalize" /\ lang.out.kind = "returned") =>
    /\ ValidateLanguageCode(lang.out.value)
    /\ NormalizedAgain = lang.out

\* C40: under fair scheduling and without cancellation every caller of
\* _handle_rate_limit on a shared provider instance eventually returns.
C40_EveryCallerReturns ==
  \A t \in Threads : (callers[t].pc # "idle") ~> (callers[t].pc = "returned")

====
